---- MODULE Spec2Model ----
(***************************************************************************)
(* State-machine model of the models of hockey-django: the fantasy models  *)
(* (src/fantasy/models.py), Season (src/teams/models.py), PlayerStats      *)
(* (src/players/models.py) and the ratios of PlayerGameStats               *)
(* (src/games/models.py).  The repository holds Django model classes: the  *)
(* operations of the program are the row operations those classes offer    *)
(* (create, save, delete), restricted by the constraints the classes       *)
(* declare (unique_together, defaults, on_delete) and by the methods they  *)
(* override (PlayerFantasyStats.save, PlayerStats.save, Season.save,       *)
(* Matchup.winner).                                                        *)
(*                                                                         *)
(* Decimal fields are modelled exactly, as integers counting the last of   *)
(* their decimal places (hundredths for two places).                       *)
(***************************************************************************)
EXTENDS Integers, FiniteSets, Sequences, TLC

VARIABLES
    slots,          \* the RosterSlot rows
    trades,         \* the Trade rows
    tradePlayers,   \* the TradePlayer rows
    scoring,        \* the FantasyScoring row of the league
    pfs,            \* a PlayerFantasyStats row (one player, week, team)
    matchup,        \* a Matchup row
    last,           \* the operation that returned last, with its arguments
    players,        \* the Player rows
    seasons,        \* the Season rows
    pstats,         \* a PlayerStats row (one player, team, season)
    teams,          \* the FantasyTeam rows of the leagues
    procs           \* the requests in the middle of a save, by caller

vars == <<slots, trades, tradePlayers, scoring, pfs, matchup, last,
          players, seasons, pstats, teams, procs>>

\* The tables outside the fantasy rosters, trades, scoring and matchups.
others == <<players, seasons, pstats, teams, procs>>

(***************************************************************************)
(* Reference data                                                          *)
(***************************************************************************)

\* Bounds of the model.
MaxSlots == 2
MaxTrades == 2
MaxTradePlayers == 2
MaxCount == 3
MaxScore == 10
MaxStat == 2
MaxSeasons == 4

\* FantasyTeam rows; each owns exactly one Roster (OneToOneField), so a
\* roster is identified with its team.
FantasyTeams == {"t1", "t2"}

\* Player rows; NoPlayer is the NULL of RosterSlot.player.
Players == {"p1", "p2"}
NoPlayer == "NULL"

\* The absent PlayerFantasyStats row, the absent Matchup row, and the value
\* of `last` before any operation.
NoRow == [player |-> NoPlayer]
NoMatchup == [week |-> 0]
NoOp == [op |-> "none"]
NoPlayerStats == [player |-> NoPlayer]

\* The callers whose saves of a row run at the same time, and a caller
\* that is not in a save.
Procs == {"a", "b"}
Idle == [pc |-> "idle"]
NoProcs == [p \in Procs |-> Idle]

\* RosterPosition rows: a center with the default capacity (max_players
\* default = 1) and a bench holding two.
RosterPositions == {"C", "BN"}
max_players == [pos \in RosterPositions |-> IF pos = "C" THEN 1 ELSE 2]

(***************************************************************************)
(* RosterSlot                                                              *)
(***************************************************************************)

SlotIds == 1..MaxSlots
NoSlot == [roster |-> "none"]

RosterSlot == [roster : FantasyTeams,
               position : RosterPositions,
               player : Players \cup {NoPlayer},
               is_active : BOOLEAN]

SlotRows == {i \in SlotIds : slots[i] # NoSlot}

\* unique_together = ['roster', 'position', 'player'] as the database
\* enforces it: a row whose player is NULL never conflicts (NULLs are
\* distinct in a unique index).  `self` is the row being written.
UniqueTogetherOk(self, row) ==
    \/ row.player = NoPlayer
    \/ \A i \in SlotRows \ {self} :
          ~ /\ slots[i].roster = row.roster
            /\ slots[i].position = row.position
            /\ slots[i].player = row.player

\* RosterSlot.objects.create(...): inserts a row under a fresh id.
CreateSlot(row) ==
    /\ SlotRows # SlotIds
    /\ row.player \in players \cup {NoPlayer}
    /\ UniqueTogetherOk(0, row)
    /\ LET id == CHOOSE i \in SlotIds \ SlotRows :
                    \A j \in SlotIds \ SlotRows : i <= j
       IN slots' = [slots EXCEPT ![id] = row]
    /\ last' = [op |-> "slot"]
    /\ UNCHANGED <<trades, tradePlayers, scoring, pfs, matchup, others>>

\* slot.<field> = ...; slot.save(): updates an existing row.
SaveSlot(id, row) ==
    /\ id \in SlotRows
    /\ row # slots[id]
    /\ row.player \in players \cup {NoPlayer}
    /\ UniqueTogetherOk(id, row)
    /\ slots' = [slots EXCEPT ![id] = row]
    /\ last' = [op |-> "slot"]
    /\ UNCHANGED <<trades, tradePlayers, scoring, pfs, matchup, others>>

\* slot.delete()
DeleteSlot(id) ==
    /\ id \in SlotRows
    /\ slots' = [slots EXCEPT ![id] = NoSlot]
    /\ last' = [op |-> "slot"]
    /\ UNCHANGED <<trades, tradePlayers, scoring, pfs, matchup, others>>

(***************************************************************************)
(* League                                                                  *)
(***************************************************************************)

\* The League row of the two teams: its settings (src: max_teams,
\* roster_size, starting_lineup_size), set small enough for the rows of the
\* model to exceed them; max_teams is the least its validators allow.
league == [max_teams |-> 4, roster_size |-> 1, starting_lineup_size |-> 1]

\* player.delete() as it would be with RosterSlot.player on_delete=CASCADE:
\* the slots naming the player are deleted with it.
DeletePlayerCascade(p) ==
    /\ p \in players
    /\ players' = players \ {p}
    /\ slots' = [i \in SlotIds |->
                   IF slots[i] # NoSlot /\ slots[i].player = p
                   THEN NoSlot
                   ELSE slots[i]]
    /\ tradePlayers' = {tp \in tradePlayers : tp.player # p}
    /\ pfs' = IF pfs.player = p THEN NoRow ELSE pfs
    /\ last' = [op |-> "delete_player", player |-> p,
                nulled |-> {i \in SlotRows : slots[i].player = p}]
    /\ UNCHANGED <<trades, scoring, matchup, seasons, pstats, teams, procs>>

\* player.delete(): RosterSlot.player is on_delete=SET_NULL, so the slots
\* naming the player stay, with a NULL player; TradePlayer.player and
\* PlayerFantasyStats.player are on_delete=CASCADE, so those rows go.
DeletePlayer(p) ==
    /\ p \in players
    /\ players' = players \ {p}
    /\ slots' = [i \in SlotIds |->
                   IF slots[i] # NoSlot /\ slots[i].player = p
                   THEN [slots[i] EXCEPT !.player = NoPlayer]
                   ELSE slots[i]]
    /\ tradePlayers' = {tp \in tradePlayers : tp.player # p}
    /\ pfs' = IF pfs.player = p THEN NoRow ELSE pfs
    /\ last' = [op |-> "delete_player", player |-> p,
                nulled |-> {i \in SlotRows : slots[i].player = p}]
    /\ UNCHANGED <<trades, scoring, matchup, seasons, pstats, teams, procs>>

(***************************************************************************)
(* Properties of the roster                                                *)
(***************************************************************************)

SlotsOf(roster) == {i \in SlotRows : slots[i].roster = roster}

\* C1: no player occupies more than one slot of the same roster, also when
\* the two slots differ in their RosterPosition.
NoPlayerTwiceInRoster ==
    \A i, j \in SlotRows :
        (/\ i # j
         /\ slots[i].roster = slots[j].roster
         /\ slots[i].player # NoPlayer)
        => slots[i].player # slots[j].player

\* C10: in every roster, the number of slots referencing a position is at
\* most the position's max_players.
SlotsPerPositionWithinMaxPlayers ==
    \A r \in FantasyTeams, pos \in RosterPositions :
        Cardinality({i \in SlotsOf(r) : slots[i].position = pos})
            <= max_players[pos]

\* C11: in every roster, the number of active slots is at most the league's
\* starting_lineup_size.
ActiveSlotsWithinLineup ==
    \A r \in FantasyTeams :
        Cardinality({i \in SlotsOf(r) : slots[i].is_active})
            <= league.starting_lineup_size

\* C12: in every roster, the number of slots, active and bench, is at most
\* the league's roster_size.
SlotsWithinRosterSize ==
    \A r \in FantasyTeams : Cardinality(SlotsOf(r)) <= league.roster_size

\* The rules a roster mutation is validated against: no duplicate player,
\* position capacity, lineup size and roster size.
RosterValid ==
    /\ \A i, j \in SlotRows :
          (i # j /\ slots[i].roster = slots[j].roster
                 /\ slots[i].player # NoPlayer)
          => slots[i].player # slots[j].player
    /\ \A r \in FantasyTeams, pos \in RosterPositions :
          Cardinality({i \in SlotsOf(r) : slots[i].position = pos})
              <= max_players[pos]
    /\ \A r \in FantasyTeams :
          /\ Cardinality({i \in SlotsOf(r) : slots[i].is_active})
                <= league.starting_lineup_size
          /\ Cardinality(SlotsOf(r)) <= league.roster_size

\* C14: a roster mutation that fails validation, its result breaking one of
\* the roster rules, leaves every roster slot and every trade record as it
\* was before the call.
FailedMutationLeavesRows ==
    [][(RosterValid /\ ~RosterValid')
          => /\ slots' = slots
             /\ trades' = trades
             /\ tradePlayers' = tradePlayers]_vars

\* C20: deleting a player removes no slot: every slot that named the
\* player stays in its roster, with its position and is_active and with a
\* NULL player, and every other slot is as it was.
DeletePlayerKeepsSlots ==
    [][\A p \in Players :
          (p \in players /\ p \notin players')
          => \A i \in SlotIds :
                slots'[i] = IF slots[i] # NoSlot /\ slots[i].player = p
                            THEN [roster |-> slots[i].roster,
                                  position |-> slots[i].position,
                                  player |-> NoPlayer,
                                  is_active |-> slots[i].is_active]
                            ELSE slots[i]]_vars

\* p1 has just been deleted while it held the active center slot 1 of t1
\* and p2 the bench slot 2: slot 1 is still there, with no player.
DeletedPlayerSlotNulled ==
    /\ last = [op |-> "delete_player", player |-> "p1", nulled |-> {1}]
    /\ slots[1] = [roster |-> "t1", position |-> "C",
                   player |-> NoPlayer, is_active |-> TRUE]
    /\ slots[2] = [roster |-> "t1", position |-> "BN",
                   player |-> "p2", is_active |-> FALSE]

(***************************************************************************)
(* Trade, TradePlayer                                                      *)
(***************************************************************************)

TradeIds == 1..MaxTrades
NoTrade == [status |-> "none"]

\* choices of Trade.status
TradeStatuses == {"pending", "accepted", "rejected", "cancelled", "completed"}

TradePlayer == [trade : TradeIds, player : Players,
                from_team : FantasyTeams, to_team : FantasyTeams]

TradeRows == {t \in TradeIds : trades[t] # NoTrade}

\* A DateTimeField(null=True) holds NULL or a time.
NoDate == "NULL"
Dates == {NoDate, "datetime"}

\* Trade.objects.create(from_team=..., to_team=...): status takes its
\* default, 'pending', and response_date and completion_date are NULL.
\* The two teams are taken distinct.
CreateTrade(from, to) ==
    /\ TradeRows # TradeIds
    /\ from # to
    /\ LET id == CHOOSE t \in TradeIds \ TradeRows :
                    \A u \in TradeIds \ TradeRows : t <= u
       IN trades' = [trades EXCEPT
                        ![id] = [from_team |-> from, to_team |-> to,
                                 status |-> "pending",
                                 response_date |-> NoDate,
                                 completion_date |-> NoDate]]
    /\ UNCHANGED <<slots, tradePlayers, scoring, pfs, matchup, last, others>>

\* trade.status = status; trade.save(): Trade overrides neither save nor
\* clean, so the row takes whatever status it is given and nothing else is
\* written: no RosterSlot is read or changed.
SaveTrade(t, status) ==
    /\ t \in TradeRows
    /\ status # trades[t].status
    /\ trades' = [trades EXCEPT ![t].status = status]
    /\ UNCHANGED <<slots, tradePlayers, scoring, pfs, matchup, last, others>>

\* trade.response_date = ...; trade.completion_date = ...; trade.save():
\* the two fields are written by their caller only, whatever the status.
SaveTradeDates(t, response_date, completion_date) ==
    /\ t \in TradeRows
    /\ trades' = [trades EXCEPT ![t].response_date = response_date,
                                ![t].completion_date = completion_date]
    /\ trades' # trades
    /\ UNCHANGED <<slots, tradePlayers, scoring, pfs, matchup, last, others>>

\* TradePlayer.objects.create(trade=..., player=..., from_team=...,
\* to_team=...): no constraint ties the row to the rosters.
CreateTradePlayer(tp) ==
    /\ tp.trade \in TradeRows
    /\ tp.from_team # tp.to_team
    /\ tp \notin tradePlayers
    /\ Cardinality(tradePlayers) < MaxTradePlayers
    /\ tradePlayers' = tradePlayers \cup {tp}
    /\ UNCHANGED <<slots, trades, scoring, pfs, matchup, last, others>>

(***************************************************************************)
(* Properties of trades                                                    *)
(***************************************************************************)

\* trade.players: the TradePlayer rows of a trade (related_name='players')
LegsOf(t) == {tp \in tradePlayers : tp.trade = t}

\* The transitions the trade status machine allows.
LegalTransitions == {<<"pending", "accepted">>, <<"pending", "rejected">>,
                     <<"pending", "cancelled">>, <<"accepted", "completed">>}

\* C2: a trade's status changes only along pending->accepted,
\* pending->rejected, pending->cancelled and accepted->completed; every
\* other change is refused, so rejected, cancelled and completed are final.
OnlyLegalTransitions ==
    [][\A t \in TradeIds :
          (trades[t] # NoTrade /\ trades'[t].status # trades[t].status)
          => <<trades[t].status, trades'[t].status>> \in LegalTransitions]_vars

\* The slots of the destination roster once every player the trade takes
\* out of it has left.
RemainingSlots(t, team) ==
    {i \in SlotsOf(team) :
        ~ \E tp \in LegsOf(t) :
              tp.from_team = team /\ tp.player = slots[i].player}

\* The leg cannot be applied: its player, held in slot i of the roster it
\* leaves, does not fit the destination roster (duplicate player, position
\* at capacity, roster full).
LegViolates(t, tp) ==
    \E i \in SlotsOf(tp.from_team) :
        /\ slots[i].player = tp.player
        /\ LET dest == RemainingSlots(t, tp.to_team)
           IN \/ \E j \in dest : slots[j].player = tp.player
              \/ Cardinality({j \in dest :
                     slots[j].position = slots[i].position})
                   >= max_players[slots[i].position]
              \/ Cardinality(dest) >= league.roster_size

\* C3: completing a trade one of whose legs would violate a roster
\* invariant fails: the trade does not become completed (it stays accepted)
\* and every roster stays as it was.
FailedCompleteLeavesAccepted ==
    [][\A t \in TradeIds :
          (/\ trades[t] # NoTrade
           /\ trades[t].status = "accepted"
           /\ \E tp \in LegsOf(t) : LegViolates(t, tp))
          => (trades'[t].status # "completed" /\ slots' = slots)]_vars

\* C4: when a trade becomes completed, each of its players is on the roster
\* of its to_team and no longer on that of its from_team, no player is
\* twice in a roster, and every slot that names no player of the trade is
\* as it was.
CompleteMovesPlayers ==
    [][\A t \in TradeIds :
          (/\ trades[t] # NoTrade
           /\ trades[t].status = "accepted"
           /\ trades'[t].status = "completed")
          => /\ \A tp \in LegsOf(t) :
                   /\ \E i \in SlotIds : /\ slots'[i] # NoSlot
                                         /\ slots'[i].roster = tp.to_team
                                         /\ slots'[i].player = tp.player
                   /\ ~ \E i \in SlotIds : /\ slots'[i] # NoSlot
                                           /\ slots'[i].roster = tp.from_team
                                           /\ slots'[i].player = tp.player
             /\ NoPlayerTwiceInRoster'
             /\ \A i \in SlotRows :
                   (~ \E tp \in LegsOf(t) : tp.player = slots[i].player)
                   => slots'[i] = slots[i]]_vars

\* C18: completion_date is set exactly when the status is completed, and
\* response_date exactly when the status is accepted, rejected or
\* completed; it is never set for a pending or cancelled trade.
DatesFollowStatus ==
    \A t \in TradeRows :
        /\ trades[t].completion_date # NoDate
           <=> trades[t].status = "completed"
        /\ trades[t].response_date # NoDate
           <=> trades[t].status \in {"accepted", "rejected", "completed"}

\* C5: of two accepted trades that list the same player as leaving the same
\* team, the second is never completed once the first has been.
SamePlayerNotTradedTwice ==
    [][\A t, u \in TradeIds :
          (/\ t # u
           /\ trades[t] # NoTrade /\ trades[u] # NoTrade
           /\ trades[t].status = "completed"
           /\ trades[u].status = "accepted"
           /\ \E tp \in LegsOf(t), up \in LegsOf(u) :
                  tp.player = up.player /\ tp.from_team = up.from_team)
          => trades'[u].status # "completed"]_vars

(***************************************************************************)
(* FantasyScoring, PlayerFantasyStats                                      *)
(***************************************************************************)

\* The raw stat fields of PlayerFantasyStats that enter the points, in the
\* order of calculate_fantasy_points.
StatFields == {"goals", "assists", "plus_minus", "penalty_minutes",
               "power_play_goals", "power_play_assists",
               "short_handed_goals", "short_handed_assists",
               "shots_on_goal", "hits", "blocked_shots",
               "wins", "losses", "goals_against", "saves", "shutouts"}

\* The FantasyScoring field that weighs a stat field.
PointsField == [goals |-> "goals_points",
                assists |-> "assists_points",
                plus_minus |-> "plus_minus_points",
                penalty_minutes |-> "penalty_minutes_points",
                power_play_goals |-> "power_play_goals_points",
                power_play_assists |-> "power_play_assists_points",
                short_handed_goals |-> "short_handed_goals_points",
                short_handed_assists |-> "short_handed_assists_points",
                shots_on_goal |-> "shots_on_goal_points",
                hits |-> "hits_points",
                blocked_shots |-> "blocked_shots_points",
                wins |-> "wins_points",
                losses |-> "losses_points",
                goals_against |-> "goals_against_points",
                saves |-> "saves_points",
                shutouts |-> "shutouts_points"]

\* The defaults of the FantasyScoring fields, in hundredths of a point.
DefaultScoring == [goals_points |-> 600,
                   assists_points |-> 400,
                   plus_minus_points |-> 100,
                   penalty_minutes_points |-> 50,
                   power_play_goals_points |-> 100,
                   power_play_assists_points |-> 50,
                   short_handed_goals_points |-> 200,
                   short_handed_assists_points |-> 100,
                   shots_on_goal_points |-> 40,
                   hits_points |-> 60,
                   blocked_shots_points |-> 100,
                   wins_points |-> 400,
                   losses_points |-> -100,
                   goals_against_points |-> -100,
                   saves_points |-> 60,
                   shutouts_points |-> 500]

\* The defaults of the PlayerFantasyStats fields (every counter 0), for the
\* one (player, week, fantasy_team) the model follows.
DefaultStats == [player |-> "p1",
                 goals |-> 0, assists |-> 0, plus_minus |-> 0,
                 penalty_minutes |-> 0,
                 power_play_goals |-> 0, power_play_assists |-> 0,
                 short_handed_goals |-> 0, short_handed_assists |-> 0,
                 shots_on_goal |-> 0, hits |-> 0, blocked_shots |-> 0,
                 wins |-> 0, losses |-> 0, goals_against |-> 0,
                 saves |-> 0, shutouts |-> 0,
                 total_fantasy_points |-> 0]

\* PlayerFantasyStats.calculate_fantasy_points, with `sc` the
\* scoring_settings of the record's league; the result in hundredths.
calculate_fantasy_points_wrong_weight(self, sc) ==
    (self.goals * sc.goals_points) +
    (self.assists * sc.assists_points) +
    (self.plus_minus * sc.plus_minus_points) +
    (self.penalty_minutes * sc.penalty_minutes_points) +
    (self.power_play_goals * sc.power_play_goals_points) +
    (self.power_play_assists * sc.power_play_goals_points) +
    (self.short_handed_goals * sc.short_handed_goals_points) +
    (self.short_handed_assists * sc.short_handed_assists_points) +
    (self.shots_on_goal * sc.shots_on_goal_points) +
    (self.hits * sc.hits_points) +
    (self.blocked_shots * sc.blocked_shots_points) +
    (self.wins * sc.wins_points) +
    (self.losses * sc.losses_points) +
    (self.goals_against * sc.goals_against_points) +
    (self.saves * sc.saves_points) +
    (self.shutouts * sc.shutouts_points)

calculate_fantasy_points(self, sc) ==
    (self.goals * sc.goals_points) +
    (self.assists * sc.assists_points) +
    (self.plus_minus * sc.plus_minus_points) +
    (self.penalty_minutes * sc.penalty_minutes_points) +
    (self.power_play_goals * sc.power_play_goals_points) +
    (self.power_play_assists * sc.power_play_assists_points) +
    (self.short_handed_goals * sc.short_handed_goals_points) +
    (self.short_handed_assists * sc.short_handed_assists_points) +
    (self.shots_on_goal * sc.shots_on_goal_points) +
    (self.hits * sc.hits_points) +
    (self.blocked_shots * sc.blocked_shots_points) +
    (self.wins * sc.wins_points) +
    (self.losses * sc.losses_points) +
    (self.goals_against * sc.goals_against_points) +
    (self.saves * sc.saves_points) +
    (self.shutouts * sc.shutouts_points)

\* PlayerFantasyStats.save: the total is computed from the instance's raw
\* stats, whatever it held, and the instance is written to its row.
save_keeps_total(self, sc) == self

save(self, sc) ==
    [self EXCEPT !.total_fantasy_points = calculate_fantasy_points(self, sc)]

Abs(n) == IF n < 0 THEN -n ELSE n

\* The size of a record: the sum of its counters (plus_minus by its
\* absolute value).  The model follows records of size up to MaxCount.
Size(self) ==
    self.goals + self.assists + Abs(self.plus_minus) +
    self.penalty_minutes + self.power_play_goals +
    self.power_play_assists + self.short_handed_goals +
    self.short_handed_assists + self.shots_on_goal + self.hits +
    self.blocked_shots + self.wins + self.losses + self.goals_against +
    self.saves + self.shutouts

\* The values a raw stat update gives a field: a game's count is added to
\* a counter (a PositiveIntegerField); plus_minus (an IntegerField) moves
\* either way.
StatValues(self, f) ==
    IF self = NoRow THEN {}
    ELSE IF f = "plus_minus" THEN {self[f] - 1, self[f] + 1}
    ELSE {self[f] + 1}

\* What a caller assigns to total_fantasy_points before saving: <<v>> for
\* the value v, <<>> when the caller leaves the field as loaded.
AssignedTotals == {<<>>, <<123456>>}

\* PlayerFantasyStats.objects.create(player=..., week=..., fantasy_team=...):
\* an instance with the defaults and the caller's total, saved.
CreateStats(total) ==
    /\ pfs = NoRow
    /\ LET self == IF total = <<>> THEN DefaultStats
                   ELSE [DefaultStats EXCEPT
                            !.total_fantasy_points = total[1]]
       IN pfs' = save(self, scoring)
    /\ last' = [op |-> "save", total |-> total]
    /\ UNCHANGED <<slots, trades, tradePlayers, scoring, matchup, others>>

\* stats.<field> = value; stats.total_fantasy_points = total; stats.save():
\* a raw stat update of the stored record.
SaveStats(f, value, total) ==
    /\ pfs # NoRow
    /\ Size(pfs) - Abs(pfs[f]) + Abs(value) <= MaxCount
    /\ LET loaded == [pfs EXCEPT ![f] = value]
           self == IF total = <<>> THEN loaded
                   ELSE [loaded EXCEPT !.total_fantasy_points = total[1]]
       IN pfs' = save(self, scoring)
    /\ last' = [op |-> "save", total |-> total]
    /\ UNCHANGED <<slots, trades, tradePlayers, scoring, matchup, others>>

\* stats.delete()
DeleteStats ==
    /\ pfs # NoRow
    /\ pfs' = NoRow
    /\ last' = [op |-> "delete"]
    /\ UNCHANGED <<slots, trades, tradePlayers, scoring, matchup, others>>

\* The weights a commissioner gives a category: its default, or the
\* default negated.
WeightValues(g) == {DefaultScoring[g], -DefaultScoring[g]}

\* scoring.<field> = weight; scoring.save(): FantasyScoring overrides no
\* save, so only its own row is written.  The model follows settings that
\* differ from the defaults in one weight at most.
SaveScoring(g, weight) ==
    /\ weight # scoring[g]
    /\ \A h \in DOMAIN scoring \ {g} : scoring[h] = DefaultScoring[h]
    /\ scoring' = [scoring EXCEPT ![g] = weight]
    /\ last' = [op |-> "scoring"]
    /\ UNCHANGED <<slots, trades, tradePlayers, pfs, matchup, others>>

\* The steps of a request that loads the row, assigns a raw stat and calls
\* save(), taken one at a time.  The first: stats =
\* PlayerFantasyStats.objects.get(...); stats.<field> = value.
LoadStats(p, f, value) ==
    /\ procs[p] = Idle
    /\ pfs # NoRow
    /\ Size(pfs) - Abs(pfs[f]) + Abs(value) <= MaxCount
    /\ procs' = [procs EXCEPT
                    ![p] = [pc |-> "loaded", self |-> [pfs EXCEPT ![f] = value]]]
    /\ UNCHANGED <<slots, trades, tradePlayers, scoring, pfs, matchup, last,
                   players, seasons, pstats, teams>>

\* The first line of save (src: self.total_fantasy_points =
\* self.calculate_fantasy_points()), which reads the scoring settings as
\* they are stored at this moment.
ComputeStats(p) ==
    /\ procs[p].pc = "loaded"
    /\ procs' = [procs EXCEPT
                    ![p] = [pc |-> "computed",
                            self |-> save(procs[p].self, scoring)]]
    /\ UNCHANGED <<slots, trades, tradePlayers, scoring, pfs, matchup, last,
                   players, seasons, pstats, teams>>

\* The second line of save (src: super().save(*args, **kwargs)), which
\* writes every field of the instance; no lock is held and no version is
\* compared.
WriteStats(p) ==
    /\ procs[p].pc = "computed"
    /\ pfs' = procs[p].self
    /\ procs' = [procs EXCEPT ![p] = Idle]
    /\ last' = [op |-> "save", total |-> <<>>]
    /\ UNCHANGED <<slots, trades, tradePlayers, scoring, matchup,
                   players, seasons, pstats, teams>>

(***************************************************************************)
(* Properties of the scoring                                               *)
(***************************************************************************)

RECURSIVE SumOf(_, _)
SumOf(f, S) ==
    IF S = {} THEN 0
    ELSE LET x == CHOOSE y \in S : TRUE
         IN f[x] + SumOf(f, S \ {x})

\* The sum, over the sixteen categories, of count times weight.
CategorySum(self, sc) ==
    SumOf([f \in StatFields |-> self[f] * sc[PointsField[f]]], StatFields)

\* The record of the example: two goals, one assist, all else 0.
IsExampleRecord(self) ==
    /\ self.goals = 2 /\ self.assists = 1
    /\ \A f \in StatFields \ {"goals", "assists"} : self[f] = 0

\* C6: calculate_fantasy_points is the sum over the sixteen categories of
\* count times weight, negative weights and a negative plus/minus
\* subtracting; with goals at 6 and assists at 4, two goals and one assist
\* give 16.
PointsAreCategorySum ==
    pfs # NoRow =>
        /\ calculate_fantasy_points(pfs, scoring) = CategorySum(pfs, scoring)
        /\ (/\ IsExampleRecord(pfs)
            /\ scoring.goals_points = 600
            /\ scoring.assists_points = 400)
           => calculate_fantasy_points(pfs, scoring) = 1600

\* The example of C6, computed and stored.
ExamplePointsReached ==
    /\ pfs # NoRow
    /\ IsExampleRecord(pfs)
    /\ scoring = DefaultScoring
    /\ pfs.total_fantasy_points = 1600

\* C7: after every save of the record, its stored total is the points of
\* the raw stats that save stored, under the league's scoring settings,
\* whatever total the caller had assigned.
SaveStoresComputedTotal ==
    last.op = "save" =>
        pfs.total_fantasy_points = calculate_fantasy_points(pfs, scoring)

\* A save whose caller had assigned another total than the one stored.
AssignedTotalOverwritten ==
    /\ last.op = "save"
    /\ last.total = <<123456>>
    /\ pfs.goals = 1
    /\ pfs.plus_minus = -1
    /\ pfs.total_fantasy_points = 500

\* C19: saves of the same record that run at the same time, also with a
\* change of a weight, take effect one after the other: once they have
\* all returned, the save that returned last has stored the total that
\* calculate_fantasy_points gives for the stored raw stats under the
\* stored weights, not an older one.
ConcurrentSavesSerialized ==
    ((\A p \in Procs : procs[p] = Idle) /\ last.op = "save")
    => pfs.total_fantasy_points = calculate_fantasy_points(pfs, scoring)

\* C8: after every operation, the stored total of the record is the points
\* of its raw stats under the current scoring settings.
TotalFollowsScoring ==
    pfs # NoRow =>
        pfs.total_fantasy_points = calculate_fantasy_points(pfs, scoring)

(***************************************************************************)
(* Matchup                                                                 *)
(***************************************************************************)

NoTeam == "None"

\* Scores are DecimalFields; the model draws whole points.
ScoreValues == {100 * n : n \in 0..MaxScore}

\* Matchup.winner
winner_ignores_is_complete(self) ==
    IF self.team1_score > self.team2_score THEN self.team1
    ELSE IF self.team2_score > self.team1_score THEN self.team2
    ELSE NoTeam

winner(self) ==
    IF self.is_complete
    THEN IF self.team1_score > self.team2_score THEN self.team1
         ELSE IF self.team2_score > self.team1_score THEN self.team2
         ELSE NoTeam
    ELSE NoTeam

\* Matchup.objects.create(week=..., team1=..., team2=...): scores 0,
\* is_complete False by default.
CreateMatchup ==
    /\ matchup = NoMatchup
    /\ matchup' = [week |-> 1, team1 |-> "t1", team2 |-> "t2",
                   team1_score |-> 0, team2_score |-> 0,
                   is_complete |-> FALSE]
    /\ UNCHANGED <<slots, trades, tradePlayers, scoring, pfs, last, others>>

\* matchup.team1_score = ...; matchup.team2_score = ...; matchup.save()
SaveScores(score1, score2) ==
    /\ matchup # NoMatchup
    /\ matchup' = [matchup EXCEPT !.team1_score = score1,
                                  !.team2_score = score2]
    /\ UNCHANGED <<slots, trades, tradePlayers, scoring, pfs, last, others>>

\* matchup.is_complete = ...; matchup.save()
SaveComplete(complete) ==
    /\ matchup # NoMatchup
    /\ matchup' = [matchup EXCEPT !.is_complete = complete]
    /\ UNCHANGED <<slots, trades, tradePlayers, scoring, pfs, last, others>>

(***************************************************************************)
(* Properties of the matchup                                               *)
(***************************************************************************)

\* The team with the strictly higher score, none when the scores are equal.
HigherScore(self) ==
    CASE self.team1_score > self.team2_score -> self.team1
      [] self.team2_score > self.team1_score -> self.team2
      [] OTHER -> NoTeam

\* C9 as stated: the winner is the team with the strictly higher score, and
\* none when the scores are equal, whatever is_complete is.
WinnerRegardlessOfComplete ==
    matchup # NoMatchup => winner(matchup) = HigherScore(matchup)

\* C9, amended: of a complete matchup the winner is the team with the
\* strictly higher score, and none when the scores are equal; a matchup
\* that is not complete has no winner.
WinnerOfCompleteMatchup ==
    matchup # NoMatchup =>
        /\ matchup.is_complete => winner(matchup) = HigherScore(matchup)
        /\ ~ matchup.is_complete => winner(matchup) = NoTeam

\* 10 against 7, complete: team1 wins.
Team1WinsTenSeven ==
    /\ matchup # NoMatchup
    /\ matchup.is_complete
    /\ matchup.team1_score = 1000
    /\ matchup.team2_score = 700
    /\ winner(matchup) = "t1"

\* The players in the active slots of a team's roster.
ActivePlayers(team) ==
    {slots[i].player : i \in {k \in SlotsOf(team) : slots[k].is_active}}
        \ {NoPlayer}

\* The sum of total_fantasy_points over the PlayerFantasyStats rows of the
\* week whose player is in an active slot of the team's roster.
ActivePoints(team) ==
    IF pfs # NoRow /\ pfs.player \in ActivePlayers(team)
    THEN pfs.total_fantasy_points
    ELSE 0

\* C13: the weekly score of a team, the score its matchup of the week
\* holds, is the sum of total_fantasy_points over the week's
\* PlayerFantasyStats rows whose player occupies an active slot of the
\* team's roster; a player in bench slots only contributes nothing.
WeeklyScoreIsActivePoints ==
    matchup # NoMatchup
    => /\ matchup.team1_score = ActivePoints(matchup.team1)
       /\ matchup.team2_score = ActivePoints(matchup.team2)

(***************************************************************************)
(* PlayerStats (src/players/models.py), and the ratios that are properties *)
(* of PlayerGameStats (src/games/models.py) and FantasyTeam                *)
(***************************************************************************)

StatCounts == 0..MaxStat

\* The division of two counters is a float; a DecimalField stores it
\* rounded to its decimal_places, half to even.  Quantize(n, d) is n / d
\* rounded to an integer, for d > 0.
Quantize(n, d) ==
    LET q == n \div d
        r == n % d
    IN  IF 2 * r < d THEN q
        ELSE IF 2 * r > d THEN q + 1
        ELSE IF q % 2 = 0 THEN q ELSE q + 1

\* PlayerStats.save: the row super().save() writes.  shooting_percentage
\* counts hundredths (decimal_places=2) and save_percentage thousandths
\* (decimal_places=3).  With a zero denominator the attribute keeps the
\* value the instance had.
PlayerStats_save(self) ==
    [self EXCEPT
        !.shooting_percentage =
            IF self.shots_on_goal > 0
            THEN Quantize(self.goals * 10000, self.shots_on_goal)
            ELSE @,
        !.save_percentage =
            IF self.shots_against > 0
            THEN Quantize(self.saves * 1000, self.shots_against)
            ELSE @]

\* PlayerStats.objects.create(player=..., goals=..., ...): the percentages
\* start from the default of their fields.
CreatePlayerStats(goals, shots_on_goal, saves, shots_against) ==
    /\ pstats = NoPlayerStats
    /\ pstats' = PlayerStats_save(
                    [player |-> "p1",
                     goals |-> goals,
                     shots_on_goal |-> shots_on_goal,
                     shooting_percentage |-> 0,
                     saves |-> saves,
                     shots_against |-> shots_against,
                     save_percentage |-> 0])
    /\ UNCHANGED <<slots, trades, tradePlayers, scoring, pfs, matchup, last,
                   players, seasons, teams, procs>>

\* stats = PlayerStats.objects.get(...); stats.goals = ...; ...; stats.save()
SavePlayerStats(goals, shots_on_goal, saves, shots_against) ==
    /\ pstats # NoPlayerStats
    /\ pstats' = PlayerStats_save(
                    [pstats EXCEPT !.goals = goals,
                                   !.shots_on_goal = shots_on_goal,
                                   !.saves = saves,
                                   !.shots_against = shots_against])
    /\ pstats' # pstats
    /\ UNCHANGED <<slots, trades, tradePlayers, scoring, pfs, matchup, last,
                   players, seasons, teams, procs>>

\* stats.delete()
DeletePlayerStats ==
    /\ pstats # NoPlayerStats
    /\ pstats' = NoPlayerStats
    /\ UNCHANGED <<slots, trades, tradePlayers, scoring, pfs, matchup, last,
                   players, seasons, teams, procs>>

\* The ratios that are properties return a float, or the integer 0; the
\* model returns the exact fraction <<numerator, denominator>>.
Zero == <<0, 1>>

\* PlayerGameStats.faceoff_percentage
faceoff_percentage(self) ==
    IF self.faceoff_attempts > 0
    THEN <<self.faceoff_wins * 100, self.faceoff_attempts>>
    ELSE Zero

\* PlayerGameStats.save_percentage
save_percentage(self) ==
    IF self.shots_against > 0
    THEN <<self.saves, self.shots_against>>
    ELSE Zero

\* FantasyTeam.win_percentage: (wins + ties * 0.5) / total_games
win_percentage(self) ==
    LET total_games == self.wins + self.losses + self.ties
    IN  IF total_games > 0
        THEN <<2 * self.wins + self.ties, 2 * total_games>>
        ELSE Zero

(***************************************************************************)
(* Properties of the ratios                                                *)
(***************************************************************************)

\* C15: every derived ratio is zero when its denominator is zero: the
\* shooting_percentage and save_percentage a PlayerStats row has stored,
\* also when the row was saved with a nonzero denominator before, and the
\* properties faceoff_percentage, save_percentage and win_percentage.
ZeroDenominatorGivesZero ==
    /\ pstats # NoPlayerStats
       => /\ pstats.shots_on_goal = 0 => pstats.shooting_percentage = 0
          /\ pstats.shots_against = 0 => pstats.save_percentage = 0
    /\ \A w \in StatCounts :
          /\ faceoff_percentage([faceoff_wins |-> w,
                                 faceoff_attempts |-> 0]) = Zero
          /\ save_percentage([saves |-> w, shots_against |-> 0]) = Zero
    /\ win_percentage([wins |-> 0, losses |-> 0, ties |-> 0]) = Zero

(***************************************************************************)
(* Season (src/teams/models.py)                                            *)
(***************************************************************************)

\* Season rows, by their unique name; season 1 is '2024-25', the one the
\* populate_initial_data command creates.
SeasonIds == 1..MaxSeasons
NoSeason == [name |-> "none"]
SeasonRows == {s \in SeasonIds : seasons[s] # NoSeason}
CurrentSeasons == {s \in SeasonRows : seasons[s].is_current}

\* Season.save without its update of the seasons marked current.
Season_save_without_update(table, self, is_current) ==
    [table EXCEPT ![self] = [is_current |-> is_current]]

\* Season.save of the instance self whose attribute is_current is given:
\* the table after the update of the current seasons, done when the
\* instance is current, and after super().save().
Season_save(table, self, is_current) ==
    LET updated == [s \in SeasonIds |->
                       IF is_current /\ table[s] # NoSeason
                                     /\ table[s].is_current
                       THEN [table[s] EXCEPT !.is_current = FALSE]
                       ELSE table[s]]
    IN  [updated EXCEPT ![self] = [is_current |-> is_current]]

\* season.save(), of a new instance or of a loaded one, with either value
\* of is_current.
SaveSeason(self, is_current) ==
    /\ seasons' = Season_save(seasons, self, is_current)
    /\ last' = [op |-> "season_save", season |-> self,
                is_current |-> is_current,
                cleared |-> IF is_current THEN CurrentSeasons \ {self}
                            ELSE {}]
    /\ UNCHANGED <<slots, trades, tradePlayers, scoring, pfs, matchup,
                   players, pstats, teams, procs>>

\* Season.objects.get_or_create(name='2024-25',
\*                              defaults={..., 'is_current': True})
\* creates and saves the season when no row has the name.
GetOrCreateSeason ==
    /\ seasons[1] = NoSeason
    /\ SaveSeason(1, TRUE)

\* The steps of season.save() taken one at a time, each a statement the
\* database commits by itself: save opens no transaction.  The first (src:
\* if self.is_current: Season.objects.filter(is_current=True)
\* .update(is_current=False)).
UpdateCurrentSeasons(p, self, is_current) ==
    /\ procs[p] = Idle
    /\ seasons' = [s \in SeasonIds |->
                     IF is_current /\ seasons[s] # NoSeason
                                   /\ seasons[s].is_current
                     THEN [seasons[s] EXCEPT !.is_current = FALSE]
                     ELSE seasons[s]]
    /\ procs' = [procs EXCEPT
                    ![p] = [pc |-> "updated", season |-> self,
                            is_current |-> is_current,
                            cleared |-> IF is_current THEN CurrentSeasons
                                        ELSE {}]]
    /\ UNCHANGED <<slots, trades, tradePlayers, scoring, pfs, matchup, last,
                   players, pstats, teams>>

\* The second step (src: super().save(*args, **kwargs)) writes the row of
\* the instance with the is_current the instance holds.
WriteSeason(p) ==
    /\ procs[p] # Idle
    /\ procs[p].pc = "updated"
    /\ seasons' = [seasons EXCEPT
                      ![procs[p].season] =
                          [is_current |-> procs[p].is_current]]
    /\ last' = [op |-> "season_save", season |-> procs[p].season,
                is_current |-> procs[p].is_current,
                cleared |-> procs[p].cleared \ {procs[p].season}]
    /\ procs' = [procs EXCEPT ![p] = Idle]
    /\ UNCHANGED <<slots, trades, tradePlayers, scoring, pfs, matchup,
                   players, pstats, teams>>

(***************************************************************************)
(* Properties of the seasons                                               *)
(***************************************************************************)

\* C16: after any sequence of Season.save calls, one after the other, at
\* most one season is current; and after saving a season with is_current
\* true, that season is current and no season that was current before is.
AtMostOneCurrentSeason ==
    /\ Cardinality(CurrentSeasons) <= 1
    /\ (last.op = "season_save" /\ last.is_current)
       => /\ CurrentSeasons = {last.season}
          /\ \A s \in last.cleared :
                s \in SeasonRows /\ ~seasons[s].is_current

\* Season 2 has just been saved as current while season 1 was: season 1 is
\* not current any more.
CurrentSeasonReplaced ==
    /\ last = [op |-> "season_save", season |-> 2, is_current |-> TRUE,
               cleared |-> {1}]
    /\ seasons[1] = [is_current |-> FALSE]
    /\ seasons[2] = [is_current |-> TRUE]

\* C21: two Season.save calls for different seasons, each with is_current
\* true, that run at the same time cannot leave two seasons current,
\* however their update steps and their write steps interleave: once the
\* calls have returned, at most one season is current.
ConcurrentSavesLeaveOneCurrent ==
    (\A p \in Procs : procs[p] = Idle) => Cardinality(CurrentSeasons) <= 1

(***************************************************************************)
(* League and its FantasyTeam rows                                         *)
(***************************************************************************)

\* The users owning teams and the leagues they join; every league has the
\* settings of the record league.
Users == {"u1", "u2", "u3", "u4", "u5"}
Leagues == {"l1", "l2"}

\* League.teams, the related manager of FantasyTeam.league
TeamsOf(l) == {t \in teams : t.league = l}

\* League.current_teams_count
current_teams_count(l) == Cardinality(TeamsOf(l))

\* League.is_full
is_full(l) == current_teams_count(l) >= league.max_teams

\* FantasyTeam.objects.create(owner=..., league=...): the row is stored
\* unless a team of the owner is in the league (unique_together).
CreateFantasyTeam(owner, l) ==
    /\ [owner |-> owner, league |-> l] \notin teams
    /\ teams' = teams \cup {[owner |-> owner, league |-> l]}
    /\ UNCHANGED <<slots, trades, tradePlayers, scoring, pfs, matchup, last,
                   players, seasons, pstats, procs>>

\* team.delete()
DeleteFantasyTeam(t) ==
    /\ t \in teams
    /\ teams' = teams \ {t}
    /\ UNCHANGED <<slots, trades, tradePlayers, scoring, pfs, matchup, last,
                   players, seasons, pstats, procs>>

(***************************************************************************)
(* Properties of the leagues                                               *)
(***************************************************************************)

\* C17: the number of teams of a league never exceeds its max_teams:
\* adding a team to a league whose is_full is true does not succeed.
FullLeagueTakesNoTeam ==
    [][\A l \in Leagues :
          /\ current_teams_count(l) <= league.max_teams
          /\ is_full(l) => {t \in teams' : t.league = l} \subseteq TeamsOf(l)
      ]_vars

(***************************************************************************)
(* Initial values of the parts a specification leaves alone                *)
(***************************************************************************)

NoSlots == [i \in SlotIds |-> NoSlot]
NoTrades == [t \in TradeIds |-> NoTrade]
NoSeasons == [s \in SeasonIds |-> NoSeason]

(***************************************************************************)
(* Specification of the roster: the rows of RosterSlot                     *)
(***************************************************************************)

Init ==
    /\ slots = NoSlots
    /\ trades = NoTrades
    /\ tradePlayers = {}
    /\ scoring = DefaultScoring
    /\ pfs = NoRow
    /\ matchup = NoMatchup
    /\ last = NoOp
    /\ players = Players
    /\ seasons = NoSeasons
    /\ pstats = NoPlayerStats
    /\ teams = {}
    /\ procs = NoProcs

Next ==
    \/ \E row \in RosterSlot : CreateSlot(row)
    \/ \E id \in SlotIds, row \in RosterSlot : SaveSlot(id, row)
    \/ \E id \in SlotIds : DeleteSlot(id)
    \/ \E p \in Players : DeletePlayer(p)

Spec == Init /\ [][Next]_vars

(***************************************************************************)
(* Specification of trades: the rows of Trade and TradePlayer, over the    *)
(* rosters of a league after its draft                                     *)
(***************************************************************************)

\* The rosters a draft leaves: every slot holds a player, in the starting
\* lineup (is_active default = True), and no player was drafted twice.
DraftedRosters ==
    {s \in [SlotIds -> RosterSlot \cup {NoSlot}] :
        /\ \A i \in SlotIds :
              s[i] # NoSlot => (s[i].player # NoPlayer /\ s[i].is_active)
        /\ \A i, j \in SlotIds :
              (i # j /\ s[i] # NoSlot /\ s[j] # NoSlot)
              => s[i].player # s[j].player}

InitTrade ==
    /\ slots \in DraftedRosters
    /\ trades = NoTrades
    /\ tradePlayers = {}
    /\ scoring = DefaultScoring
    /\ pfs = NoRow
    /\ matchup = NoMatchup
    /\ last = NoOp
    /\ players = Players
    /\ seasons = NoSeasons
    /\ pstats = NoPlayerStats
    /\ teams = {}
    /\ procs = NoProcs

NextTrade ==
    \/ \E from, to \in FantasyTeams : CreateTrade(from, to)
    \/ \E t \in TradeIds, status \in TradeStatuses : SaveTrade(t, status)
    \/ \E tp \in TradePlayer : CreateTradePlayer(tp)

SpecTrade == InitTrade /\ [][NextTrade]_vars

(***************************************************************************)
(* Specification of trades whose callers keep to the workflow: a trade is  *)
(* proposed with players that are on the roster they leave, between the    *)
(* two teams of the trade, and its status is only ever saved along a legal *)
(* transition.  The operations are those of SpecTrade.                     *)
(***************************************************************************)

NextWorkflow ==
    \/ \E from, to \in FantasyTeams : CreateTrade(from, to)
    \/ \E t \in TradeIds, status \in TradeStatuses :
          /\ trades[t] # NoTrade
          /\ <<trades[t].status, status>> \in LegalTransitions
          /\ SaveTrade(t, status)
    \/ \E tp \in TradePlayer :
          /\ trades[tp.trade] # NoTrade
          /\ trades[tp.trade].status = "pending"
          /\ {tp.from_team, tp.to_team}
                = {trades[tp.trade].from_team, trades[tp.trade].to_team}
          /\ \E i \in SlotsOf(tp.from_team) : slots[i].player = tp.player
          /\ CreateTradePlayer(tp)

SpecWorkflow == InitTrade /\ [][NextWorkflow]_vars

(***************************************************************************)
(* Specification of the scoring: the FantasyScoring row of a league and a  *)
(* PlayerFantasyStats row of one of its teams                              *)
(***************************************************************************)

NextScoring ==
    \/ \E total \in AssignedTotals : CreateStats(total)
    \/ \E f \in StatFields, total \in AssignedTotals :
          \E value \in StatValues(pfs, f) : SaveStats(f, value, total)
    \/ DeleteStats
    \/ \E g \in DOMAIN DefaultScoring :
          \E weight \in WeightValues(g) : SaveScoring(g, weight)

SpecScoring == Init /\ [][NextScoring]_vars

(***************************************************************************)
(* Specification of a matchup                                              *)
(***************************************************************************)

NextMatchup ==
    \/ CreateMatchup
    \/ \E score1, score2 \in ScoreValues : SaveScores(score1, score2)
    \/ \E complete \in BOOLEAN : SaveComplete(complete)

SpecMatchup == Init /\ [][NextMatchup]_vars

(***************************************************************************)
(* Specification of the season statistics: a PlayerStats row               *)
(***************************************************************************)

NextStats ==
    \/ \E g, sog, sv, sa \in StatCounts : CreatePlayerStats(g, sog, sv, sa)
    \/ \E g, sog, sv, sa \in StatCounts : SavePlayerStats(g, sog, sv, sa)
    \/ DeletePlayerStats

SpecStats == Init /\ [][NextStats]_vars

(***************************************************************************)
(* Specification of the seasons: the rows of Season, saved one call after  *)
(* the other                                                               *)
(***************************************************************************)

NextSeason ==
    \/ \E s \in SeasonIds, c \in BOOLEAN : SaveSeason(s, c)
    \/ GetOrCreateSeason

SpecSeason == Init /\ [][NextSeason]_vars

(***************************************************************************)
(* Specification of the leagues: the rows of FantasyTeam                   *)
(***************************************************************************)

NextLeague ==
    \/ \E u \in Users, l \in Leagues : CreateFantasyTeam(u, l)
    \/ \E u \in Users, l \in Leagues :
          DeleteFantasyTeam([owner |-> u, league |-> l])

SpecLeague == Init /\ [][NextLeague]_vars

(***************************************************************************)
(* Specification of the dates of trades: the rows of Trade, their status   *)
(* and their two nullable dates                                            *)
(***************************************************************************)

NextTradeDates ==
    \/ \E from, to \in FantasyTeams : CreateTrade(from, to)
    \/ \E t \in TradeIds, status \in TradeStatuses : SaveTrade(t, status)
    \/ \E t \in TradeIds, r, c \in Dates : SaveTradeDates(t, r, c)

SpecTradeDates == Init /\ [][NextTradeDates]_vars

(***************************************************************************)
(* Specification of a fantasy week: the rosters after the draft, whose     *)
(* slots are moved between lineup and bench, the PlayerFantasyStats row of *)
(* the week and the matchup of the two teams                               *)
(***************************************************************************)

NextWeek ==
    \/ \E id \in SlotIds, active \in BOOLEAN :
          /\ id \in SlotRows
          /\ SaveSlot(id, [slots[id] EXCEPT !.is_active = active])
    \/ CreateStats(<<>>)
    \/ \E value \in StatValues(pfs, "goals") : SaveStats("goals", value, <<>>)
    \/ CreateMatchup
    \/ \E score1 \in ScoreValues : SaveScores(score1, 0)

SpecWeek == InitTrade /\ [][NextWeek]_vars

(***************************************************************************)
(* Specification of concurrent saves: requests that save the one           *)
(* PlayerFantasyStats row step by step, while a weight of the league       *)
(* changes                                                                 *)
(***************************************************************************)

NextConcurrent ==
    \/ CreateStats(<<>>)
    \/ \E p \in Procs, value \in StatValues(pfs, "goals") \cup {0} :
          LoadStats(p, "goals", value)
    \/ \E p \in Procs : ComputeStats(p)
    \/ \E p \in Procs : WriteStats(p)
    \/ \E weight \in WeightValues("goals_points") :
          SaveScoring("goals_points", weight)

SpecConcurrent == Init /\ [][NextConcurrent]_vars

(***************************************************************************)
(* Specification of concurrent season saves: callers that save seasons     *)
(* step by step                                                            *)
(***************************************************************************)

NextSeasonConcurrent ==
    \/ \E p \in Procs, s \in SeasonIds, c \in BOOLEAN :
          UpdateCurrentSeasons(p, s, c)
    \/ \E p \in Procs : WriteSeason(p)

SpecSeasonConcurrent == Init /\ [][NextSeasonConcurrent]_vars

====
